---- MODULE Spec2Model ----
(***************************************************************************)
(* The search drivers of the portage backend                              *)
(* (src/backends/portage/custom.py): search_details, search_file,         *)
(* search_group and search_name, with the helpers they call.  One run of  *)
(* the model is one invocation of one driver on one package database; the *)
(* emissions of the run (status, allow_cancel, percentage, package,       *)
(* error) are recorded, in order, in `out`.                               *)
(*                                                                         *)
(* Strings are sequences of one-character strings, so that "/" in k,      *)
(* key[0], catsplit, re.escape + re.compile(.., re.IGNORECASE).search and *)
(* the anchored "/" + key + "$" pattern are computed on the characters.   *)
(*                                                                         *)
(* The code computes percentages in binary floating point, as             *)
(* idx * (100.0 / n).  A percentage is recorded as the rational num/den   *)
(* it approximates together with `off`: the number of units in the last   *)
(* place by which the float the code computes lies above the float        *)
(* nearest to num/den.  Two percentages of one run approximate rationals  *)
(* that are equal or far apart, so the rationals order them, and `off`    *)
(* orders those of equal rational.  The float operations themselves are   *)
(* computed on 53-bit significands held as bit sequences.                 *)
(***************************************************************************)
EXTENDS Integers, Sequences, FiniteSets, TLC

\* ------------------------------------------------------------------ bounds
MaxTerms == 2
MaxInstalled == 2
MaxRepo == 2
MaxVer == 2

\* ----------------------------------------------------------------- strings
Lower(c) ==
    CASE c = "F" -> "f"
      [] c = "O" -> "o"
      [] c = "B" -> "b"
      [] OTHER -> c

lower(s) == [i \in 1..Len(s) |-> Lower(s[i])]

Range(s) == {s[i] : i \in 1..Len(s)}

HasSlash(k) == "/" \in Range(k)

FirstSlash(k) == CHOOSE i \in 1..Len(k) : k[i] = "/" /\ \A j \in 1..(i - 1) : k[j] # "/"

catsplit(k) ==
    IF ~HasSlash(k) THEN <<k>>
    ELSE <<SubSeq(k, 1, FirstSlash(k) - 1), SubSeq(k, FirstSlash(k) + 1, Len(k))>>

\* re.compile(re.escape(k), re.IGNORECASE).search(s): k occurs in s as a
\* literal, ignoring case
re_search(k, s) ==
    \E i \in 0..(Len(s) - Len(k)) : lower(SubSeq(s, i + 1, i + Len(k))) = lower(k)

EndsWith(s, t) ==
    /\ Len(t) <= Len(s)
    /\ lower(SubSeq(s, Len(s) - Len(t) + 1, Len(s))) = lower(t)

\* re.compile("/" + re.escape(key) + "$", re.IGNORECASE).search(f): "$"
\* matches at the end of f and also just before a final newline
re_search_anchored(key, f) ==
    \/ EndsWith(f, <<"/">> \o key)
    \/ /\ Len(f) > 0
       /\ f[Len(f)] = "\n"
       /\ EndsWith(SubSeq(f, 1, Len(f) - 1), <<"/">> \o key)

\* ---------------------------------------------------------------- database
\* category/name groups the database may hold
CP_a_fo == <<"a", "/", "f", "o">>
CP_b_fo == <<"b", "/", "f", "o">>
CP_a_ob == <<"a", "/", "o", "b">>
CPUniverse == {CP_a_fo, CP_b_fo, CP_a_ob}

\* duplicate-free sequences over S of length at most n
RECURSIVE UniqueSeqs(_, _)
UniqueSeqs(S, n) ==
    IF n = 0 THEN {<<>>}
    ELSE LET shorter == UniqueSeqs(S, n - 1)
         IN  shorter \cup
             UNION {{Append(s, x) : x \in S \ Range(s)} : s \in shorter}

\* sequences over S of length at most n
RECURSIVE SeqsUpTo(_, _)
SeqsUpTo(S, n) ==
    IF n = 0 THEN {<<>>}
    ELSE LET shorter == SeqsUpTo(S, n - 1)
         IN  shorter \cup {Append(s, x) : s \in shorter, x \in S}

\* permutations of 1..n
Perms(n) == {s \in UniqueSeqs(1..n, n) : Len(s) = n}

\* installed file paths
P_u_fo == <<"/", "u", "/", "f", "o">>
P_u_ofo == <<"/", "u", "/", "o", "f", "o">>
P_fo == <<"/", "f", "o">>
FileLists == {<<>>, <<P_u_fo>>, <<P_u_ofo, P_fo>>}

\* the metadata fields search_details fetches
Fields == <<"DESCRIPTION", "HOMEPAGE", "IUSE", "LICENSE",
            "repository", "SLOT", "EAPI", "KEYWORDS">>
FieldSet == Range(Fields)
Blank == [f \in FieldSet |-> <<>>]
Described == [Blank EXCEPT !["DESCRIPTION"] = <<"F", "o">>]
AuxProfiles ==
    {Blank,
     Described,
     [Blank EXCEPT !["DESCRIPTION"] = <<"f">>, !["KEYWORDS"] = <<"o">>]}

\* classification labels of groups
Labels == {<<"t">>, <<"o">>}

\* every installed group has one installed version
InstalledVer == 1

VARIABLES
    driver,         \* the entry point invoked
    filters,        \* its filter set
    terms,          \* its term list (keys, values, groups, keys_list)
    terms0,         \* the term list as the caller passed it
    vardb_cp,       \* pvar.vardb.cp_all(): the installed groups
    portdb_cp,      \* pvar.portdb.cp_all(): the groups of the repository
    tree_vers,      \* the versions of a repository group, as porttree lists them
    contents,       \* installed group -> its installed file paths
    pk_group,       \* group -> classification label
    aux,            \* metadata field -> value, of the versions in the repository
    broken,         \* the repository groups whose metadata cannot be read
    cancel_requested, \* the client asked for the running search to stop
    items,          \* compute_equal_steps called on its own: its argument
    result,         \* and the list it has built so far
    pc,             \* "start", "loop", "done" (returned), "raised"
    exc,            \* the exception that left the driver, "" if none
    out,            \* the emissions so far
    reads,          \* the enumerations of the database read so far
    cp_list,        \* the candidates being scanned
    progress,       \* the checkpoints left in PackagekitProgress
    idx,            \* candidates consumed by the loop
    cpv_list,       \* search_file: the installed versions
    is_full_path,   \* search_file
    searchre,       \* search_file: the literal of the compiled pattern
    category_filter,\* search_name
    search_list,    \* search_name, search_details: literals of the patterns
    selected        \* search_details: the versions appended to cpv_list

db == <<vardb_cp, portdb_cp, tree_vers, contents, pk_group, aux, broken>>
args == <<driver, filters, terms, terms0>>
locals == <<cp_list, progress, idx, cpv_list, is_full_path, searchre,
            category_filter, search_list, selected>>
\* what no driver assigns
apart == <<cancel_requested, items, result>>
vars == <<args, db, apart, pc, exc, out, reads, locals>>

\* Python's None, where a string may stand
None == <<"N", "o", "n", "e">>

Cpv(cp, ver) == [cp |-> cp, ver |-> ver]
NoCpv == Cpv(<<>>, 0)

\* ------------------------------------------------------- database queries
\* pvar.vardb.cpv_all()
vardb_cpv_all == [i \in 1..Len(vardb_cp) |-> Cpv(vardb_cp[i], InstalledVer)]

\* portage.db[root]["porttree"].dbapi.match(cp)
porttree_match(cp) ==
    IF cp \in Range(portdb_cp)
    THEN [i \in 1..Len(tree_vers) |-> Cpv(cp, tree_vers[i])]
    ELSE <<>>

\* portage.db[root]["vartree"].dbapi.match(cpv): the installed versions of
\* the group of cpv
vartree_match(cpv) ==
    IF cpv.cp \in Range(vardb_cp) THEN <<Cpv(cpv.cp, InstalledVer)>> ELSE <<>>

\* whether porttree's aux_get(cpv, ..) raises: cpv is not in the repository,
\* or its metadata cannot be read
aux_get_raises(cpv) ==
    \/ ~(cpv.cp \in Range(portdb_cp) /\ cpv.ver \in Range(tree_vers))
    \/ cpv.cp \in broken

\* _get_file_list(cpv)
_get_file_list(cpv) == contents[cpv.cp]

\* ---------------------------------------------------------------- helpers
\* Python floats: IEEE 754 binary64, round to nearest, ties to even.  A
\* natural number is the sequence of its digits in base 2^13, most
\* significant first; a float is [m, e] with m a 53-bit significand and
\* value m * 2^e.
MantissaBits == 53
LimbBits == 13
Base == 8192
\* zero digits appended to a dividend before it is divided
FracLimbs == 5
\* the offsets searched when two floats of one binade are compared
MaxUlps == 4

RECURSIVE pow2(_)
pow2(k) == IF k = 0 THEN 1 ELSE 2 * pow2(k - 1)

RECURSIVE nat_limbs(_)
nat_limbs(n) ==
    IF n = 0 THEN <<>> ELSE Append(nat_limbs(n \div Base), n % Base)

zeros(k) == [i \in 1..k |-> 0]

Front(limbs) == SubSeq(limbs, 1, Len(limbs) - 1)

RECURSIVE strip(_)
strip(limbs) ==
    IF Len(limbs) > 0 /\ Head(limbs) = 0 THEN strip(Tail(limbs)) ELSE limbs

RECURSIVE bit_length_of(_)
bit_length_of(n) == IF n = 0 THEN 0 ELSE 1 + bit_length_of(n \div 2)

\* the number of bits of a natural without leading zero digits
bit_length(limbs) ==
    IF Len(limbs) = 0 THEN 0
    ELSE (Len(limbs) - 1) * LimbBits + bit_length_of(Head(limbs))

\* limbs * k + carry, for k <= Base
RECURSIVE mul_carry(_, _, _)
mul_carry(limbs, k, carry) ==
    IF Len(limbs) = 0 THEN nat_limbs(carry)
    ELSE LET v == limbs[Len(limbs)] * k + carry
         IN  Append(mul_carry(Front(limbs), k, v \div Base), v % Base)

\* limbs divided by d <= Base: the quotient (as long as limbs) and the
\* remainder
RECURSIVE long_div(_, _)
long_div(limbs, d) ==
    IF Len(limbs) = 0 THEN [q |-> <<>>, r |-> 0]
    ELSE LET p == long_div(Front(limbs), d)
             v == Base * p.r + limbs[Len(limbs)]
         IN  [q |-> Append(p.q, v \div d), r |-> v % d]

\* limbs * 2^k
RECURSIVE shift_left(_, _)
shift_left(limbs, k) ==
    IF k >= LimbBits THEN shift_left(Append(limbs, 0), k - LimbBits)
    ELSE mul_carry(limbs, pow2(k), 0)

\* limbs divided by 2^k, and whether a remainder was dropped
RECURSIVE shift_right(_, _)
shift_right(limbs, k) ==
    IF k >= LimbBits
    THEN LET h == shift_right(Front(limbs), k - LimbBits)
         IN  [q |-> h.q, sticky |-> h.sticky \/ limbs[Len(limbs)] # 0]
    ELSE LET qr == long_div(limbs, pow2(k))
         IN  [q |-> strip(qr.q), sticky |-> qr.r # 0]

\* the float nearest to the natural number limbs (plus a fraction when
\* sticky), as a significand and the exponent it carries
round_nearest_even(limbs, sticky) ==
    LET len == bit_length(limbs)
    IN  IF len <= MantissaBits
        THEN [m |-> shift_left(limbs, MantissaBits - len),
              e |-> len - MantissaBits]
        ELSE LET h == shift_right(limbs, len - MantissaBits - 1)
                 guard == h.q[Len(h.q)] % 2
                 keep == shift_right(h.q, 1).q
                 up == guard = 1 /\ (h.sticky \/ sticky
                                      \/ keep[Len(keep)] % 2 = 1)
                 m1 == IF up THEN mul_carry(keep, 1, 1) ELSE keep
             IN  IF bit_length(m1) > MantissaBits
                 THEN [m |-> shift_right(m1, 1).q,
                       e |-> len - MantissaBits + 1]
                 ELSE [m |-> m1, e |-> len - MantissaBits]

\* float(a) / float(d), for naturals 0 < a and 0 < d <= Base
float_div(a, d) ==
    LET qr == long_div(nat_limbs(a) \o zeros(FracLimbs), d)
        f == round_nearest_even(strip(qr.q), qr.r # 0)
    IN  [m |-> f.m, e |-> f.e - FracLimbs * LimbBits]

\* float(k) * f, for a natural 0 < k <= Base
float_mul(k, f) ==
    LET r == round_nearest_even(strip(mul_carry(f.m, k, 0)), FALSE)
    IN  [m |-> r.m, e |-> f.e + r.e]

\* x - y in units of the last place, for floats of one binade
float_ulps(x, y) ==
    IF x = y THEN 0
    ELSE CHOOSE d \in (-MaxUlps..MaxUlps) \ {0} :
            /\ x.e = y.e
            /\ IF d > 0 THEN x.m = mul_carry(y.m, 1, d)
                ELSE y.m = mul_carry(x.m, 1, -d)

\* the longest iterable compute_equal_steps is given
MaxItems == 13

\* idx * (100.0 / n) against the float nearest to idx * 100 / n
steps_off ==
    [n \in 1..MaxItems |->
        [i \in 1..n |->
            float_ulps(float_mul(i, float_div(100, n)),
                       float_div(i * 100, n))]]

Pct(num, den) == [num |-> num, den |-> den, off |-> 0]

\* idx * (100.0 / len(iterable))
equal_step(i, n) == [num |-> i * 100, den |-> n, off |-> steps_off[n][i]]

compute_equal_steps(iterable) ==
    IF Len(iterable) = 0 THEN <<>>
    ELSE [i \in 1..Len(iterable) |-> equal_step(i, Len(iterable))]

\* PackagekitProgress(steps): .percent before the first step, and the
\* values iterating it yields
ProgressPercent0 == Pct(0, 1)
PackagekitProgress(steps) == steps

\* the failure answered with None for each field
_get_metadata_m(cpv, fields) ==
    IF aux_get_raises(cpv) THEN [i \in 1..Len(fields) |-> None]
    ELSE [i \in 1..Len(fields) |-> aux[fields[i]]]

_get_metadata(cpv, fields) ==
    IF aux_get_raises(cpv) THEN [i \in 1..Len(fields) |-> <<>>]
    ELSE [i \in 1..Len(fields) |-> aux[fields[i]]]

_is_installed(cpv) == Len(vartree_match(cpv)) > 0

\* get_package_id(pn, ver, arch, repo)
_cpv_to_id(cpv) ==
    [pn |-> catsplit(cpv.cp)[2], ver |-> cpv.ver, arch |-> "amd64", repo |-> "gentoo"]
NoId == [pn |-> <<>>, ver |-> 0, arch |-> "", repo |-> ""]

\* the emissions: self.status, self.allow_cancel, self.percentage,
\* self.error and self.package
Ev(t, p, cpv, id, info, desc) ==
    [t |-> t, num |-> p.num, den |-> p.den, off |-> p.off, cpv |-> cpv,
     id |-> id,
     info |-> info, desc |-> desc]
status_query == Ev("status", Pct(0, 1), NoCpv, NoId, "query", <<>>)
allow_cancel == Ev("allow_cancel", Pct(0, 1), NoCpv, NoId, "true", <<>>)
percentage(p) == Ev("percentage", p, NoCpv, NoId, "", <<>>)
\* the two opening lines of a driver, in the other order
preamble_m == <<allow_cancel, status_query>>
\* the two opening lines of a driver: self.status(STATUS_QUERY) and
\* self.allow_cancel(True)
preamble == <<status_query, allow_cancel>>
error_filelist == Ev("error", Pct(0, 1), NoCpv, NoId, "cannot-get-filelist", <<>>)

\* _package(cpv) with info=None: the package emission it makes
_package(cpv) ==
    Ev("package", Pct(0, 1), cpv, _cpv_to_id(cpv),
       IF _is_installed(cpv) THEN "installed" ELSE "available",
       _get_metadata(cpv, <<"DESCRIPTION">>)[1])

\* the sequences of ss joined, in order
RECURSIVE Concat(_)
Concat(ss) == IF Len(ss) = 0 THEN <<>> ELSE Head(ss) \o Concat(Tail(ss))

\* --------------------------------------------------------------- search_file
\* line 124 testing the wrong flag
file_rejects_m(fl) == "INSTALLED" \in fl

\* line 124: the filter combination search_file rejects
file_rejects(fl) == "NOT_INSTALLED" \in fl

\* _filter_free(cpv_list, filters): no licence flag is in the filter set
_filter_free(cpvs, fl) == cpvs

\* lines 147-148
file_matches(full, key, re, f) ==
    \/ (full /\ key = f)
    \/ (~full /\ re_search_anchored(re, f))

\* lines 137-140: is_full_path and searchre after looking at key
next_is_full_path(full, key) == IF key[1] # "/" THEN FALSE ELSE full
next_searchre(re, key) == IF key[1] # "/" THEN key ELSE re

\* lines 145-150: the packages emitted for one key
file_packages(cpvs, full, key, re) ==
    Concat([i \in 1..Len(cpvs) |->
        IF \E j \in 1..Len(_get_file_list(cpvs[i])) :
               file_matches(full, key, re, _get_file_list(cpvs[i])[j])
        THEN <<_package(cpvs[i])>>
        ELSE <<>>])

\* lines 121-133
search_file_begin ==
    /\ driver = "file" /\ pc = "start"
    /\ IF file_rejects(filters)
       THEN /\ out' = out \o preamble \o <<error_filelist>>
            /\ pc' = "done"
            /\ UNCHANGED <<reads, cpv_list, is_full_path, progress>>
       ELSE /\ cpv_list' = vardb_cpv_all
            /\ reads' = reads \cup {"vardb.cpv_all"}
            /\ is_full_path' = TRUE
            /\ progress' = PackagekitProgress(compute_equal_steps(terms))
            /\ out' = out \o preamble \o <<percentage(ProgressPercent0)>>
            /\ pc' = "loop"
    /\ UNCHANGED <<args, db, apart, exc, cp_list, idx, searchre, category_filter,
                   search_list, selected>>

\* lines 135-152: one iteration of the loop over zip(progress, values)
search_file_iter ==
    /\ driver = "file" /\ pc = "loop"
    /\ idx < Len(progress) /\ idx < Len(terms)
    /\ LET key == terms[idx + 1]
       IN  IF Len(key) = 0
           THEN \* key[0] raises IndexError
                /\ pc' = "raised" /\ exc' = "IndexError"
                /\ UNCHANGED <<out, reads, idx, cpv_list, is_full_path, searchre>>
           ELSE LET full == next_is_full_path(is_full_path, key)
                    re == next_searchre(searchre, key)
                    cpvs == _filter_free(cpv_list, filters)
                IN  /\ is_full_path' = full
                    /\ searchre' = re
                    /\ cpv_list' = cpvs
                    /\ reads' = reads \cup
                          (IF Len(cpvs) > 0 THEN {"file_list"} ELSE {})
                    /\ out' = out \o file_packages(cpvs, full, key, re)
                                  \o <<percentage(progress[idx + 1])>>
                    /\ idx' = idx + 1
                    /\ UNCHANGED <<pc, exc>>
    /\ UNCHANGED <<args, db, apart, cp_list, progress, category_filter, search_list, selected>>

\* line 154
search_file_end ==
    /\ driver = "file" /\ pc = "loop"
    /\ ~(idx < Len(progress) /\ idx < Len(terms))
    /\ out' = out \o <<percentage(Pct(100, 1))>>
    /\ pc' = "done"
    /\ UNCHANGED <<args, db, apart, exc, reads, locals>>

\* ------------------------------------------------------------- _get_all_cp
\* lines 43-45: append the groups of `more` that cp_list does not hold yet
\* lines 43-45 without the `cp not in cp_list` test
append_new_m(cps, more) == cps \o more

RECURSIVE append_new(_, _)
append_new(cps, more) ==
    IF Len(more) = 0 THEN cps
    ELSE append_new(IF Head(more) \in Range(cps) THEN cps ELSE Append(cps, Head(more)),
                    Tail(more))

\* lines 36-39 with the two tests in the other order
_get_all_cp_m(fl) ==
    IF "NOT_INSTALLED" \in fl THEN portdb_cp
    ELSE IF "INSTALLED" \in fl THEN vardb_cp
    ELSE append_new(vardb_cp, portdb_cp)

_get_all_cp(fl) ==
    IF "INSTALLED" \in fl THEN vardb_cp
    ELSE IF "NOT_INSTALLED" \in fl THEN portdb_cp
    ELSE append_new(vardb_cp, portdb_cp)

\* the views _get_all_cp reads
_get_all_cp_reads(fl) ==
    IF "INSTALLED" \in fl THEN {"vardb.cp_all"}
    ELSE IF "NOT_INSTALLED" \in fl THEN {"portdb.cp_all"}
    ELSE {"vardb.cp_all", "portdb.cp_all"}

\* lines 49-50: filters is not looked at
_get_all_cpv(cp, fl) == porttree_match(cp)

\* _package for every element of cpvs, in order
packages(cpvs) == [i \in 1..Len(cpvs) |-> _package(cpvs[i])]

\* ------------------------------------------------------------ search_group
\* _get_pk_group(cp)
_get_pk_group(cp) == pk_group[cp]

\* lines 166-169: the packages emitted for one candidate
group_packages(cp, groups, fl) ==
    Concat([g \in 1..Len(groups) |->
        IF _get_pk_group(cp) = groups[g]
        THEN packages(_get_all_cpv(cp, fl))
        ELSE <<>>])

\* lines 157-163
search_group_begin ==
    /\ driver = "group" /\ pc = "start"
    /\ cp_list' = _get_all_cp(filters)
    /\ reads' = reads \cup _get_all_cp_reads(filters)
    /\ progress' = PackagekitProgress(compute_equal_steps(cp_list'))
    /\ out' = out \o preamble \o <<percentage(ProgressPercent0)>>
    /\ pc' = "loop"
    /\ UNCHANGED <<args, db, apart, exc, idx, cpv_list, is_full_path, searchre,
                   category_filter, search_list, selected>>

\* lines 165-171: one iteration of the loop over zip(progress, cp_list)
search_group_iter ==
    /\ driver = "group" /\ pc = "loop"
    /\ idx < Len(progress) /\ idx < Len(cp_list)
    /\ out' = out \o group_packages(cp_list[idx + 1], terms, filters)
                  \o <<percentage(progress[idx + 1])>>
    /\ reads' = reads \cup {"pk_group"} \cup
          (IF \E g \in 1..Len(terms) : _get_pk_group(cp_list[idx + 1]) = terms[g]
           THEN {"porttree.match"} ELSE {})
    /\ idx' = idx + 1
    /\ UNCHANGED <<args, db, apart, pc, exc, cp_list, progress, cpv_list, is_full_path,
                   searchre, category_filter, search_list, selected>>

\* line 173
search_group_end ==
    /\ driver = "group" /\ pc = "loop"
    /\ ~(idx < Len(progress) /\ idx < Len(cp_list))
    /\ out' = out \o <<percentage(Pct(100, 1))>>
    /\ pc' = "done"
    /\ UNCHANGED <<args, db, apart, exc, reads, locals>>

\* ------------------------------------------------------------- search_name
\* keys_list.index(k)
index(keys, k) == CHOOSE i \in 1..Len(keys) : keys[i] = k /\ \A j \in 1..(i - 1) : keys[j] # k

\* lines 179-184: the loop over the copy keys_list[:]; the result is the
\* categories collected and keys_list as the loop leaves it
RECURSIVE split_keys(_, _, _)
split_keys(copy, keys, categories) ==
    IF Len(copy) = 0 THEN [keys |-> keys, categories |-> categories]
    ELSE LET k == Head(copy)
         IN  IF HasSlash(k)
             THEN split_keys(Tail(copy),
                             [keys EXCEPT ![index(keys, k)] = catsplit(k)[2]],
                             Append(categories, catsplit(k)[1]))
             ELSE split_keys(Tail(copy), keys, categories)

\* line 187 letting two categories through
too_many_categories_m(categories) == Len(categories) > 2

\* line 187: the request is given up
too_many_categories(categories) == Len(categories) > 1

\* lines 186-190
choose_category_filter(categories) ==
    IF Len(categories) = 1 THEN categories[1] ELSE None

\* `if category_filter:` neither None nor the empty string
truthy(s) == s # None /\ Len(s) > 0

\* lines 203-206 never skipping a candidate
name_skips_m(cp, cf) == FALSE

\* lines 203-206: the candidate is skipped by `continue`
name_skips(cp, cf) == truthy(cf) /\ catsplit(cp)[1] # cf

\* lines 210-214
name_found(cp, sl) == \A i \in 1..Len(sl) : re_search(sl[i], catsplit(cp)[2])

\* lines 176-200
search_name_begin ==
    /\ driver = "name" /\ pc = "start"
    /\ LET r == split_keys(terms, terms, <<>>)
       IN  /\ terms' = r.keys
           /\ IF too_many_categories(r.categories)
              THEN /\ out' = out \o preamble
                   /\ pc' = "done"
                   /\ UNCHANGED <<reads, cp_list, progress, category_filter, search_list>>
              ELSE /\ category_filter' = choose_category_filter(r.categories)
                   /\ search_list' = r.keys
                   /\ cp_list' = _get_all_cp(filters)
                   /\ reads' = reads \cup _get_all_cp_reads(filters)
                   /\ progress' = PackagekitProgress(compute_equal_steps(cp_list'))
                   /\ out' = out \o preamble \o <<percentage(ProgressPercent0)>>
                   /\ pc' = "loop"
    /\ UNCHANGED <<driver, filters, terms0, db, apart, exc, idx, cpv_list, is_full_path,
                   searchre, selected>>

\* lines 202-219: one iteration of the loop over zip(progress, cp_list)
search_name_iter ==
    /\ driver = "name" /\ pc = "loop"
    /\ idx < Len(progress) /\ idx < Len(cp_list)
    /\ LET cp == cp_list[idx + 1]
       IN  IF name_skips(cp, category_filter)
           THEN UNCHANGED <<out, reads>>
           ELSE IF name_found(cp, search_list)
           THEN /\ out' = out \o packages(_get_all_cpv(cp, filters))
                              \o <<percentage(progress[idx + 1])>>
                /\ reads' = reads \cup {"porttree.match"}
           ELSE /\ out' = out \o <<percentage(progress[idx + 1])>>
                /\ UNCHANGED reads
    /\ idx' = idx + 1
    /\ UNCHANGED <<args, db, apart, pc, exc, cp_list, progress, cpv_list, is_full_path,
                   searchre, category_filter, search_list, selected>>

\* line 221
search_name_end ==
    /\ driver = "name" /\ pc = "loop"
    /\ ~(idx < Len(progress) /\ idx < Len(cp_list))
    /\ out' = out \o <<percentage(Pct(100, 1))>>
    /\ pc' = "done"
    /\ UNCHANGED <<args, db, apart, exc, reads, locals>>

\* ---------------------------------------------------------- search_details
\* _get_search_list(keys): one case-insensitive pattern for each key
_get_search_list(keys) == keys

\* lines 79-86
search_details_begin ==
    /\ driver = "details" /\ pc = "start"
    /\ cp_list' = _get_all_cp(filters)
    /\ reads' = reads \cup _get_all_cp_reads(filters)
    /\ search_list' = _get_search_list(terms)
    /\ progress' = PackagekitProgress(compute_equal_steps(cp_list'))
    /\ out' = out \o preamble \o <<percentage(ProgressPercent0)>>
    /\ pc' = "loop"
    /\ UNCHANGED <<args, db, apart, exc, idx, cpv_list, is_full_path, searchre,
                   category_filter, selected>>

\* lines 88-91: the first iteration calls
\* self._get_all_cpv(cp, filters, filter_newest=False), and _get_all_cpv
\* (line 49) takes no filter_newest: the call raises TypeError before the
\* body of the loop over the versions is entered
search_details_iter ==
    /\ driver = "details" /\ pc = "loop"
    /\ idx < Len(progress) /\ idx < Len(cp_list)
    /\ pc' = "raised" /\ exc' = "TypeError"
    /\ idx' = idx + 1
    /\ UNCHANGED <<args, db, apart, out, reads, cp_list, progress, cpv_list, is_full_path,
                   searchre, category_filter, search_list, selected>>

\* line 118
search_details_end ==
    /\ driver = "details" /\ pc = "loop"
    /\ ~(idx < Len(progress) /\ idx < Len(cp_list))
    /\ out' = out \o <<percentage(Pct(100, 1))>>
    /\ pc' = "done"
    /\ UNCHANGED <<args, db, apart, exc, reads, locals>>

\* ----------------------------------------------------- compute_equal_steps
\* called on its own, the list of line 27 built an element at a time
\* lines 24-25
compute_equal_steps_begin ==
    /\ driver = "steps" /\ pc = "start"
    /\ pc' = IF Len(items) = 0 THEN "done" ELSE "loop"
    /\ idx' = 1
    /\ UNCHANGED <<args, db, cancel_requested, items, result, exc, out, reads,
                   cp_list, progress, cpv_list, is_full_path, searchre,
                   category_filter, search_list, selected>>

\* line 27: the element for idx
compute_equal_steps_next ==
    /\ driver = "steps" /\ pc = "loop"
    /\ result' = Append(result, equal_step(idx, Len(items)))
    /\ idx' = idx + 1
    /\ pc' = IF idx = Len(items) THEN "done" ELSE "loop"
    /\ UNCHANGED <<args, db, cancel_requested, items, exc, out, reads,
                   cp_list, progress, cpv_list, is_full_path, searchre,
                   category_filter, search_list, selected>>

\* ------------------------------------------------------------ cancellation
\* the client's request to stop the running search: it may arrive once the
\* driver has declared itself cancellable and before it returns, that is
\* between two candidates of the scan
request_cancel ==
    /\ pc = "loop" /\ ~cancel_requested
    /\ cancel_requested' = TRUE
    /\ UNCHANGED <<args, db, items, result, pc, exc, out, reads, locals>>

\* ------------------------------------------------------------- invocations
\* the terms the drivers are given
T_fo == <<"f", "o">>
T_o == <<"o">>
T_u_Fo == <<"u", "/", "F", "o">>
FileTerms == {T_fo, T_u_Fo, P_fo, P_u_fo, <<>>}
T_a_F == <<"a", "/", "F">>
T_b_o == <<"b", "/", "o">>
T__o == <<"/", "o">>
NameTerms == {T_fo, T_a_F, T_b_o, T__o}
DetailsTerms == {T_fo, T_o}

FilterSets == SUBSET {"INSTALLED", "NOT_INSTALLED", "NEWEST"}

InitRun ==
    /\ terms0 = terms
    /\ pc = "start" /\ exc = "" /\ out = <<>> /\ reads = {}
    /\ cancel_requested = FALSE /\ result = <<>>
    /\ cp_list = <<>> /\ progress = <<>> /\ idx = 0
    /\ cpv_list = <<>> /\ is_full_path = TRUE /\ searchre = <<>>
    /\ category_filter = None /\ search_list = <<>> /\ selected = {}

\* the groups of the database: each view lists a group once
InitGroups ==
    /\ vardb_cp \in UniqueSeqs(CPUniverse, MaxInstalled)
    /\ portdb_cp \in UniqueSeqs(CPUniverse, MaxRepo)

InitFile ==
    /\ driver = "file"
    /\ filters \in FilterSets
    /\ terms \in SeqsUpTo(FileTerms, MaxTerms)
    /\ vardb_cp \in UniqueSeqs(CPUniverse, MaxInstalled)
    /\ portdb_cp = <<CP_a_fo>>
    /\ tree_vers = <<1>>
    /\ contents \in [Range(vardb_cp) -> FileLists]
    /\ pk_group = [cp \in CPUniverse |-> <<"t">>]
    /\ aux = Blank /\ broken = {}
    /\ items = <<>>
    /\ InitRun

InitGroup ==
    /\ driver = "group"
    /\ filters \in FilterSets
    /\ terms \in SeqsUpTo(Labels, MaxTerms)
    /\ InitGroups
    /\ tree_vers \in Perms(MaxVer)
    /\ contents = [cp \in Range(vardb_cp) |-> <<>>]
    /\ pk_group \in {[cp \in CPUniverse |-> <<"t">>],
                     [cp \in CPUniverse |-> IF cp = CP_a_fo THEN <<"t">> ELSE <<"o">>]}
    /\ aux = Blank /\ broken = {}
    /\ items = <<>>
    /\ InitRun

InitName ==
    /\ driver = "name"
    /\ filters \in FilterSets
    /\ terms \in SeqsUpTo(NameTerms, MaxTerms)
    /\ InitGroups
    /\ tree_vers \in Perms(MaxVer)
    /\ contents = [cp \in Range(vardb_cp) |-> <<>>]
    /\ pk_group = [cp \in CPUniverse |-> <<"t">>]
    /\ aux = Blank /\ broken = {}
    /\ items = <<>>
    /\ InitRun

InitDetails ==
    /\ driver = "details"
    /\ filters \in FilterSets
    /\ terms \in SeqsUpTo(DetailsTerms, MaxTerms)
    /\ InitGroups
    /\ tree_vers \in Perms(MaxVer)
    /\ contents = [cp \in Range(vardb_cp) |-> <<>>]
    /\ pk_group = [cp \in CPUniverse |-> <<"t">>]
    /\ aux \in AuxProfiles /\ broken = {}
    /\ items = <<>>
    /\ InitRun

\* compute_equal_steps on an iterable of up to MaxItems items
InitSteps ==
    /\ driver = "steps" /\ filters = {} /\ terms = <<>>
    /\ vardb_cp = <<>> /\ portdb_cp = <<>> /\ tree_vers = <<>>
    /\ contents = [cp \in {} |-> <<>>]
    /\ pk_group = [cp \in CPUniverse |-> <<"t">>]
    /\ aux = Blank /\ broken = {}
    /\ InitRun
    /\ items \in {[i \in 1..n |-> i] : n \in 0..MaxItems}

\* search_group on a repository some of whose groups have metadata that
\* cannot be read
InitGroupMeta ==
    /\ driver = "group"
    /\ filters \in {{}, {"NOT_INSTALLED"}}
    /\ terms \in SeqsUpTo(Labels, MaxTerms)
    /\ InitGroups
    /\ tree_vers \in Perms(MaxVer)
    /\ contents = [cp \in Range(vardb_cp) |-> <<>>]
    /\ pk_group = [cp \in CPUniverse |-> <<"t">>]
    /\ aux = Described /\ broken \in SUBSET Range(portdb_cp)
    /\ items = <<>>
    /\ InitRun

\* the terms a driver is given
TermsOf(d) ==
    CASE d = "file" -> FileTerms
      [] d = "group" -> Labels
      [] d = "name" -> NameTerms
      [] d = "details" -> DetailsTerms

\* each of the four drivers, on a database whose repository is empty or
\* holds two groups
InitDrivers ==
    /\ driver \in {"details", "file", "group", "name"}
    /\ filters \in {{}, {"NOT_INSTALLED"}, {"INSTALLED", "NEWEST"}}
    /\ terms \in SeqsUpTo(TermsOf(driver), MaxTerms)
    /\ vardb_cp \in UniqueSeqs(CPUniverse, MaxInstalled)
    /\ portdb_cp \in {<<>>, <<CP_b_fo, CP_a_fo>>}
    /\ tree_vers = <<1>>
    /\ contents = [cp \in Range(vardb_cp) |-> <<P_u_fo>>]
    /\ pk_group = [cp \in CPUniverse |-> <<"t">>]
    /\ aux = Described /\ broken = {}
    /\ items = <<>>
    /\ InitRun

Init == InitDrivers \/ InitGroupMeta \/ InitDetails \/ InitFile \/ InitGroup \/ InitName \/ InitSteps

NextFile == search_file_begin \/ search_file_iter \/ search_file_end
NextGroup == search_group_begin \/ search_group_iter \/ search_group_end
NextName == search_name_begin \/ search_name_iter \/ search_name_end
NextDetails == search_details_begin \/ search_details_iter \/ search_details_end
NextSteps == compute_equal_steps_begin \/ compute_equal_steps_next
Next ==
    \/ NextDetails \/ NextFile \/ NextGroup \/ NextName \/ NextSteps
    \/ request_cancel

SpecFile == InitFile /\ [][NextFile]_vars
SpecGroup == InitGroup /\ [][NextGroup]_vars
SpecName == InitName /\ [][NextName]_vars
SpecDetails == InitDetails /\ [][NextDetails]_vars
SpecDrivers ==
    InitDrivers /\ [][NextDetails \/ NextFile \/ NextGroup \/ NextName]_vars
SpecGroupMeta == InitGroupMeta /\ [][NextGroup]_vars
SpecSteps == InitSteps /\ [][NextSteps]_vars
\* search_group with a client that may ask for it to stop
SpecGroupCancel == InitGroup /\ [][NextGroup \/ request_cancel]_vars
Spec == Init /\ [][Next]_vars

\* ------------------------------------------------------------------ claims
IsPct(e) == e.t = "percentage"
IsPkg(e) == e.t = "package"
PctIdx == {i \in 1..Len(out) : IsPct(out[i])}
PkgIdx == {i \in 1..Len(out) : IsPkg(out[i])}
PctLeq(p, q) ==
    \/ p.num * q.den < q.num * p.den
    \/ p.num * q.den = q.num * p.den /\ p.off <= q.off
Is100(p) == p.num = 100 * p.den /\ p.off = 0
\* the position in out of the i-th package emitted
PkgAt(i) == CHOOSE j \in PkgIdx : Cardinality({k \in PkgIdx : k <= j}) = i
Ended == pc \in {"done", "raised"}
NoDup(s) == \A i, j \in 1..Len(s) : s[i] = s[j] => i = j

\* C1: in every invocation of each of the four drivers the percentages
\* emitted never decrease, and when the invocation has ended the last
\* percentage emitted is 100.
C1_PercentagesEndAt100 ==
    /\ \A i, j \in PctIdx : i < j => PctLeq(out[i], out[j])
    /\ Ended => /\ PctIdx # {}
                /\ \A i \in PctIdx : (\A j \in PctIdx : j <= i) => Is100(out[i])

\* C2: search_file with NOT_INSTALLED in the filter set emits the status,
\* the cancellable declaration and one "cannot get file list" error, no
\* package and no percentage, reads neither the installed versions nor a
\* file list, and returns.
C2_FileRejectsNotInstalled ==
    (driver = "file" /\ "NOT_INSTALLED" \in filters /\ pc # "start") =>
        /\ out = <<status_query, allow_cancel, error_filelist>>
        /\ reads = {}
        /\ pc = "done" /\ exc = ""
        /\ idx = 0 /\ cpv_list = <<>>

C2_Witness ==
    /\ driver = "file" /\ filters = {"NOT_INSTALLED", "NEWEST"} /\ pc = "done"
    /\ terms = <<P_u_fo, T_fo>>
    /\ \E cp \in Range(vardb_cp) : P_u_fo \in Range(contents[cp])

\* the term a package of search_file was emitted for: the loop emits one
\* percentage before its first iteration and one at the end of each
TermOf(i) == terms0[Cardinality({j \in PctIdx : j < i})]

\* C3: a package search_file emits for a term that starts with "/" is an
\* installed version one of whose file paths equals the term.
C3_FullPathIsExact ==
    driver = "file" =>
        \A i \in PkgIdx :
            TermOf(i)[1] = "/" =>
                TermOf(i) \in Range(_get_file_list(out[i].cpv))

\* search_details: every predicate is found in one of the 8 fields
details_matches(cpv, keys) ==
    \A k \in 1..Len(keys) :
        \E f \in 1..Len(Fields) : re_search(keys[k], _get_metadata(cpv, Fields)[f])

\* C4: when search_details, given at least one predicate, has ended, the
\* versions it selected are the versions of its candidates every predicate
\* of which is found, ignoring case, in one of the 8 metadata fields.
C4_DetailsSelectsMatches ==
    (driver = "details" /\ Ended /\ Len(terms0) > 0) =>
        \A c \in 1..Len(cp_list) :
            \A v \in 1..Len(porttree_match(cp_list[c])) :
                LET cpv == porttree_match(cp_list[c])[v]
                IN  cpv \in selected <=> details_matches(cpv, terms0)

\* C5: with neither INSTALLED nor NOT_INSTALLED, the candidates are the
\* installed groups and the repository groups, each once, the installed
\* ones first in the order of the installed view, then the others in the
\* order of the repository view.
Before(s, x, y) ==
    \E i, j \in 1..Len(s) : i < j /\ s[i] = x /\ s[j] = y
C5_ListGroupsUnion ==
    (driver = "group" /\ pc # "start" /\ filters \cap {"INSTALLED", "NOT_INSTALLED"} = {}) =>
        /\ Range(cp_list) = Range(vardb_cp) \cup Range(portdb_cp)
        /\ NoDup(cp_list)
        /\ \A x \in Range(vardb_cp), y \in Range(portdb_cp) \ Range(vardb_cp) :
               Before(cp_list, x, y)
        /\ \A x, y \in Range(vardb_cp) :
               Before(vardb_cp, x, y) => Before(cp_list, x, y)
        /\ \A x, y \in Range(portdb_cp) \ Range(vardb_cp) :
               Before(portdb_cp, x, y) => Before(cp_list, x, y)

C5_Witness ==
    /\ driver = "group" /\ pc = "loop" /\ filters = {}
    /\ Len(vardb_cp) = 2 /\ Len(portdb_cp) = 2 /\ Len(cp_list) = 3
    /\ portdb_cp[1] = vardb_cp[2]

Emitted == {out[i].cpv : i \in PkgIdx}
MaxOf(S) == CHOOSE m \in S : \A x \in S : x <= m

\* C6: with NEWEST in the filter set a search for at least one term emits
\* at most one version of a group, the highest of the group's matching
\* versions.
C6_NewestOnly ==
    ("NEWEST" \in filters /\ Len(terms0) > 0) =>
        /\ \A i, j \in PkgIdx : out[i].cpv.cp = out[j].cpv.cp => i = j
        /\ \A i \in PkgIdx : out[i].cpv.ver = MaxOf(Range(tree_vers))

\* C7: with NOT_INSTALLED requested no package is emitted as installed,
\* and with INSTALLED requested no package is emitted as available.
C7_InstallStateHonoured ==
    \A i \in PkgIdx :
        /\ "NOT_INSTALLED" \in filters => out[i].info # "installed"
        /\ "INSTALLED" \in filters => out[i].info # "available"

\* the terms of a search_name request
Qualified(keys) == {i \in 1..Len(keys) : HasSlash(keys[i])}
Bare(keys) == {i \in 1..Len(keys) : ~HasSlash(keys[i])}
DistinctCategories(keys) == {catsplit(keys[i])[1] : i \in Qualified(keys)}
Stripped(k) == IF HasSlash(k) THEN catsplit(k)[2] ELSE k

\* the versions of the candidates in category cat whose bare name contains
\* every term, its prefix stripped, ignoring case
NameExpected(cat) ==
    UNION {Range(porttree_match(cp)) :
           cp \in {c \in Range(_get_all_cp(filters)) :
                      /\ catsplit(c)[1] = cat
                      /\ \A i \in 1..Len(terms0) :
                             re_search(Stripped(terms0[i]), catsplit(c)[2])}}

\* C8: a search_name request whose terms carry more than one distinct
\* category prefix emits the status and the cancellable declaration and
\* nothing else (no package, no error), and returns.
C8_AmbiguousCategories ==
    (driver = "name" /\ pc # "start" /\ Cardinality(DistinctCategories(terms0)) > 1) =>
        /\ out = <<status_query, allow_cancel>>
        /\ pc = "done" /\ exc = ""

C8_Witness ==
    /\ driver = "name" /\ pc = "done" /\ filters = {}
    /\ terms0 = <<T_a_F, T_b_o>>
    /\ CP_a_fo \in Range(portdb_cp) /\ CP_b_fo \in Range(portdb_cp)

\* C9 as the specification states it: a search_name request with a bare
\* term and a category-qualified term emits no package.
C9_BareAndQualifiedYieldNothing ==
    (/\ driver = "name" /\ Bare(terms0) # {}
     /\ DistinctCategories(terms0) \ {<<>>} # {}) => PkgIdx = {}

\* C9, amended: a search_name request with bare terms and exactly one
\* category-qualified term, of a non-empty category, is searched in that
\* category: it emits, once each, the versions of the candidates of that
\* category whose bare name contains every term, and nothing else.
C9_BareAndOneQualified ==
    (/\ driver = "name" /\ Bare(terms0) # {}
     /\ Cardinality(Qualified(terms0)) = 1
     /\ <<>> \notin DistinctCategories(terms0)) =>
        LET cat == CHOOSE c \in DistinctCategories(terms0) : TRUE
        IN  /\ Emitted \subseteq NameExpected(cat)
            /\ Cardinality(PkgIdx) = Cardinality(Emitted)
            /\ pc # "raised"
            /\ pc = "done" => Emitted = NameExpected(cat)

C9_Witness ==
    /\ driver = "name" /\ pc = "done"
    /\ terms0 = <<T_fo, T_a_F>>
    /\ CP_b_fo \in Range(cp_list) /\ idx = Len(cp_list)
    /\ Cpv(CP_a_fo, 2) \in Emitted

\* C10: when the terms of a search_name request carry exactly one distinct
\* category prefix, on one term or on several, the request emits exactly
\* the versions of the candidates of that category whose bare name contains
\* every term, its prefix stripped, ignoring case.
C10_OneCategory ==
    (/\ driver = "name" /\ pc = "done"
     /\ Cardinality(DistinctCategories(terms0)) = 1
     /\ <<>> \notin DistinctCategories(terms0)) =>
        Emitted = NameExpected(CHOOSE c \in DistinctCategories(terms0) : TRUE)


\* C11: compute_equal_steps over n items returns n elements, the i-th
\* (0-based) being the float (i+1)*100/n; they do not decrease and the last
\* is 100; for no item the list is empty.
C11_EqualSteps ==
    driver = "steps" =>
        /\ Len(result) <= Len(items)
        /\ pc = "done" => Len(result) = Len(items)
        /\ \A i \in 1..Len(result) :
                /\ result[i].num * Len(items) = i * 100 * result[i].den
                /\ result[i].off = 0
        /\ \A i, j \in 1..Len(result) : i < j => PctLeq(result[i], result[j])
        /\ pc = "done" /\ Len(result) > 0 => Is100(result[Len(result)])

\* C12: once cancellation has been requested between two candidates, the
\* driver stops at the top of the next iteration: no step it takes from then
\* on emits a package.
C12_CancelStopsTheScan ==
    [][cancel_requested =>
          \A i \in (Len(out) + 1)..Len(out') : ~IsPkg(out'[i])]_vars

\* C13: whatever the filter set, the term list and the database, a driver
\* returns normally: no exception leaves it, and the only error it reports
\* is the one of search_file with NOT_INSTALLED.
C13_NoExceptionLeavesADriver ==
    /\ pc # "raised" /\ exc = ""
    /\ \A i \in 1..Len(out) :
          out[i].t = "error" =>
              driver = "file" /\ "NOT_INSTALLED" \in filters

\* C14: when the metadata lookup of a version fails, _get_metadata answers
\* with one empty string for each requested field, the version is emitted
\* with an empty description, and the scan goes on: the versions of every
\* later candidate are emitted too, every candidate gets its checkpoint and
\* the run ends with the 100 checkpoint.
C14_MetadataFailureIsAbsorbed ==
    driver = "group" =>
        /\ \A cp \in broken : \A v \in Range(tree_vers) :
              _get_metadata(Cpv(cp, v), Fields) = [i \in 1..Len(Fields) |-> <<>>]
        /\ \A i \in PkgIdx :
              out[i].desc = IF out[i].cpv.cp \in broken THEN <<>>
                            ELSE aux["DESCRIPTION"]
        /\ pc # "raised" /\ exc = ""
        /\ pc \in {"loop", "done"} =>
              /\ Cardinality(PctIdx) = idx + 1 + (IF pc = "done" THEN 1 ELSE 0)
              /\ \A k \in 1..idx : \A v \in Range(tree_vers) :
                    (/\ cp_list[k] \in Range(portdb_cp)
                     /\ _get_pk_group(cp_list[k]) \in Range(terms0))
                        => Cpv(cp_list[k], v) \in Emitted
        /\ pc = "done" =>
              /\ idx = Len(cp_list)
              /\ IsPct(out[Len(out)]) /\ Is100(out[Len(out)])

C14_Witness ==
    /\ driver = "group" /\ pc = "done" /\ Len(cp_list) = 2
    /\ broken = {cp_list[1]}
    /\ \E i, j \in PkgIdx :
          /\ i < j
          /\ out[i].cpv.cp = cp_list[1] /\ out[i].desc = <<>>
          /\ out[j].cpv.cp = cp_list[2] /\ out[j].desc = <<"F", "o">>
    /\ Is100(out[Len(out)])

\* the packages search_group is to emit: one for each version of each
\* candidate group whose label is one of the requested labels, in the order
\* of the scan
GroupExpected ==
    Concat([k \in 1..Len(cp_list) |->
        IF _get_pk_group(cp_list[k]) \in Range(terms0)
        THEN porttree_match(cp_list[k]) ELSE <<>>])

\* C15: search_group emits exactly one package for each version of each
\* candidate group whose label equals one of the requested labels, and
\* nothing for any other group, whatever the list of requested labels.
C15_OnePackagePerVersion ==
    (driver = "group" /\ pc = "done") =>
        [i \in 1..Cardinality(PkgIdx) |-> out[PkgAt(i)].cpv] = GroupExpected

\* the position in out of the i-th percentage emitted
PctAt(i) == CHOOSE j \in PctIdx : Cardinality({k \in PctIdx : k <= j}) = i

\* C16: a scan over N candidates emits, after the initial percentage, one
\* checkpoint for each candidate, whether the candidate produced a package
\* or was skipped by the category filter: the i-th is 100*i/N and closes
\* the packages of candidate i; one final 100 follows.
C16_OneCheckpointPerCandidate ==
    (driver = "name" /\ pc = "done" /\ Len(out) > 2) =>
        /\ Cardinality(PctIdx) = Len(cp_list) + 2
        /\ \A k \in 1..Len(cp_list) :
              /\ out[PctAt(k + 1)].num * Len(cp_list) = 100 * k * out[PctAt(k + 1)].den
              /\ out[PctAt(k + 1)].off = 0
              /\ \A j \in PkgIdx :
                    (PctAt(k) < j /\ j < PctAt(k + 1)) => out[j].cpv.cp = cp_list[k]
        /\ PctAt(Len(cp_list) + 2) = Len(out) /\ Is100(out[Len(out)])

\* the final path component of f: what follows its last "/"
RECURSIVE FinalComponent(_)
FinalComponent(f) ==
    IF Len(f) = 0 \/ f[Len(f)] = "/" THEN <<>>
    ELSE Append(FinalComponent(SubSeq(f, 1, Len(f) - 1)), f[Len(f)])

\* the packages search_file emitted for its t-th term
FileSegment(t) ==
    IF t + 1 > Cardinality(PctIdx) THEN {}
    ELSE {j \in PkgIdx :
            /\ PctAt(t) < j
            /\ (t + 2 <= Cardinality(PctIdx) => j < PctAt(t + 1))}

\* C17: search_file emits an installed version for a term that does not
\* start with "/" exactly when one of its file paths has a final component
\* equal to the term ignoring case, and then once.
C17_BareTermMatchesFinalComponent ==
    (driver = "file" /\ Ended /\ ~file_rejects(filters)) =>
        \A t \in 1..Len(terms0) :
            (Len(terms0[t]) = 0 \/ terms0[t][1] # "/") =>
                \A c \in 1..Len(vardb_cpv_all) :
                    Cardinality({j \in FileSegment(t) : out[j].cpv = vardb_cpv_all[c]})
                        = IF \E f \in Range(_get_file_list(vardb_cpv_all[c])) :
                                 lower(FinalComponent(f)) = lower(terms0[t])
                          THEN 1 ELSE 0

\* C18: _get_all_cp returns the installed groups, as the installed view
\* lists them, whenever INSTALLED is in the filter set, with NOT_INSTALLED
\* or without; it returns the groups of the repository view when
\* NOT_INSTALLED is there without INSTALLED; it reads one view only in both
\* cases, and of an empty database it returns the empty list.
C18_ListGroupsOneFlag ==
    (driver = "group" /\ pc # "start") =>
        /\ "INSTALLED" \in filters =>
              cp_list = vardb_cp /\ "portdb.cp_all" \notin reads
        /\ ("NOT_INSTALLED" \in filters /\ "INSTALLED" \notin filters) =>
              cp_list = portdb_cp /\ "vardb.cp_all" \notin reads
        /\ (vardb_cp = <<>> /\ portdb_cp = <<>>) => cp_list = <<>>

C18_Witness ==
    /\ driver = "group" /\ pc = "loop"
    /\ filters = {"INSTALLED", "NOT_INSTALLED"}
    /\ Len(vardb_cp) = 2 /\ Len(portdb_cp) = 2
    /\ Range(vardb_cp) # Range(portdb_cp)
    /\ cp_list = vardb_cp

\* C19: every invocation of a driver emits the "query" status first and
\* the cancellable declaration second; no percentage, package or error
\* comes before them, and no package comes after a percentage of 100.
C19_PreambleFirst ==
    /\ pc # "start" => Len(out) >= 2
    /\ Len(out) >= 1 => out[1] = status_query
    /\ Len(out) >= 2 => out[2] = allow_cancel
    /\ \A i \in 1..Len(out) :
          out[i].t \in {"percentage", "package", "error"} => i > 2
    /\ \A i \in PctIdx : \A j \in PkgIdx : Is100(out[i]) => j < i

C19_Witness ==
    /\ driver = "name" /\ pc = "done" /\ Len(cp_list) = 2
    /\ SubSeq(out, 1, 2) = <<status_query, allow_cancel>>
    /\ \E j \in PkgIdx : out[j].cpv.cp = cp_list[2]
    /\ Is100(out[Len(out) - 1]) /\ Is100(out[Len(out)])

\* C20: a search leaves the database views, its filter set and its term
\* list as they were: no step of a driver changes any of them.
C20_NothingIsMutated ==
    [][db' = db /\ filters' = filters /\ terms' = terms]_vars
====
